---- MODULE Spec2Model ----
(***************************************************************************)
(* Model of src/webapp/static/product-form.js: the photo selection store,  *)
(* its preview object URLs, the hidden upload-session field, the debounce  *)
(* timer and the cancelable analysis request.                              *)
(*                                                                         *)
(* Scheduling follows the browser event loop: every handler runs to        *)
(* completion; a promise continuation runs in the microtask checkpoint     *)
(* that follows the task which settled the promise.  AbortController.abort *)
(* rejects a pending fetch() promise synchronously, so the continuation of *)
(* a request aborted while awaiting fetch() (line 203) is a microtask: it  *)
(* runs before any other task.  A request aborted while awaiting           *)
(* response.json() (line 212) has its body stream errored; json() rejects, *)
(* and that continuation runs in a later task.                             *)
(*                                                                         *)
(* The variables hold what the script assigns.  The browser's own default  *)
(* actions (filling the file input on a pick, resetting controls on a form *)
(* reset) are outside the script and are not modelled.                     *)
(*                                                                         *)
(* Encodings: the session string is a natural number, 0 being the empty    *)
(* string and n > 0 the identifier the server issued for request n; a      *)
(* timer handle and "null" are a positive number and 0; an absent, null or *)
(* empty JSON member is "".                                                *)
(***************************************************************************)
EXTENDS Integers, Sequences, FiniteSets, TLC

VARIABLES
    selectedFiles,       \* line 21: sequence of [id, file, previewUrl]
    nextId,              \* next value generateId / URL.createObjectURL hands out
    liveUrls,            \* object URLs created and not yet revoked
    revokedTwice,        \* TRUE once revokeObjectURL was called on a URL that is not live
    sessionInput,        \* sessionInput.value (0 is "")
    fileInputFiles,      \* fileInput.files as last assigned by syncFileInput
    strip,               \* ids of the thumbnails rendered in the strip
    clearHidden,         \* clearButton.hidden
    statusText,          \* statusEl.textContent
    statusTone,          \* statusEl.dataset.tone ("" when deleted)
    analysisTimeout,     \* line 235: handle of the last timer scheduled, 0 is null
    timers,              \* handles of the timers pending in the browser
    analysisController,  \* line 22: id of the request the controller belongs to, 0 is null
    analyzing,           \* line 23
    requests,            \* runAnalysis invocations suspended at an await
    nextReq,             \* id of the next request
    microtasks,          \* ids of the requests whose continuation is a queued microtask
    fields,              \* values of the form fields applySuggestions fills
    tags,                \* tagName of each of those fields ("" when the element is missing)
    last,                \* history: the handler that ran last and sessionInput before it
    mutationMark         \* history: nextReq when the store was last mutated

vars == <<selectedFiles, nextId, liveUrls, revokedTwice, sessionInput, fileInputFiles,
          strip, clearHidden, statusText, statusTone, analysisTimeout, timers,
          analysisController, analyzing, requests, nextReq, microtasks, fields, tags,
          last, mutationMark>>

storeVars == <<selectedFiles, nextId, liveUrls, revokedTwice, fileInputFiles, strip, clearHidden>>
statusVars == <<statusText, statusTone>>
timerVars == <<analysisTimeout, timers>>
requestVars == <<analysisController, analyzing, requests, nextReq, microtasks>>
formVars == <<fields, tags>>

----
\* Program constants and literals

\* mutant: the count limit off by one
MaxFilesOffByOne == 10 + 1

MAX_FILES == 10
MiB == 1024 * 1024
MAX_TOTAL_BYTES == 25 * MiB

DefaultStatus == "Add photos to analyze."
MsgCountLimit == "Limit 10 photos per product. Remove some before adding more."
MsgSizeLimit == "Images exceed the 25 MB limit. Remove large files before retrying."
MsgAnalyzing == "Analyzing photos..."
MsgFailed == "Photo analysis failed. Please submit manually or retry."
MsgReady == "Suggestions ready - review and adjust if needed."
MsgNetwork == "Network error while analyzing photos. Please retry."
MsgCleared == "Photos cleared. Add new photos to try again."

HasDataTransfer == TRUE

\* String.prototype.trim().length === 0, on the strings the model uses
IsBlank(s) == s \in {"", " "}

----
\* Bounds of the model

MaxIds == 2
MaxRequests == 3
LimMaxIds == 12
LimMaxRequests == 2
FormMaxIds == 2
FormMaxRequests == 2
LiveMaxIds == 2

----
\* Pure helpers

RECURSIVE SumSizes(_)
SumSizes(sizes) == IF sizes = <<>> THEN 0 ELSE Head(sizes) + SumSizes(Tail(sizes))

\* line 91
totalBytes(store) == SumSizes([i \in 1..Len(store) |-> store[i].file.size])

\* lines 55-60: the file list syncFileInput assigns
SyncedFiles(store, current) ==
    IF ~HasDataTransfer THEN current ELSE [i \in 1..Len(store) |-> store[i].file]

\* lines 66-89: the thumbnails renderStrip builds, one per entry, keyed by id
RenderedStrip(store) == [i \in 1..Len(store) |-> store[i].id]

\* lines 50-53
ClearButtonHidden(store) == Len(store) = 0

StoreIds(store) == {store[i].id : i \in 1..Len(store)}
StoreUrls(store) == {store[i].previewUrl : i \in 1..Len(store)}

\* mutant: the index -1 of an absent id is passed on to splice, which counts
\* it from the end
FindIndexFromEnd(store, id) ==
    IF id \in StoreIds(store)
    THEN CHOOSE i \in 1..Len(store) :
            store[i].id = id /\ \A j \in 1..(i - 1) : store[j].id # id
    ELSE Len(store)

\* line 94: findIndex, 0 standing for -1
FindIndex(store, id) ==
    IF id \in StoreIds(store)
    THEN CHOOSE i \in 1..Len(store) :
            store[i].id = id /\ \A j \in 1..(i - 1) : store[j].id # id
    ELSE 0

\* mutant: the last entry is moved into the place of the removed one
SpliceSwapsLast(store, index) ==
    [i \in 1..(Len(store) - 1) |-> IF i = index THEN store[Len(store)] ELSE store[i]]

\* line 96: splice(index, 1)
Splice(store, index) ==
    [i \in 1..(Len(store) - 1) |-> IF i < index THEN store[i] ELSE store[i + 1]]

\* lines 131-137: the entries pushed for the incoming files, ids and URLs fresh
NewEntries(incoming, first) ==
    [i \in 1..Len(incoming) |->
        [id |-> first + i - 1,
         file |-> [fid |-> first + i - 1, size |-> incoming[i]],
         previewUrl |-> first + i - 1]]

\* lines 162-166: the fields applySuggestions looks up
FieldNames == {"sn", "asset_tag", "description", "subcategory", "cod_destiny"}

\* the option values of a SELECT field
SelectOptions == {"", "A", "B"}

\* gentlySetValue without its assignments
gentlySetValueNever(tag, current, value) == current

\* lines 146-159: the element's value after gentlySetValue(element, value)
gentlySetValue(tag, current, value) ==
    IF tag = "" \/ value = "" THEN current
    ELSE IF tag = "SELECT"
    THEN IF value \in SelectOptions THEN value ELSE current
    ELSE IF IsBlank(current) THEN value ELSE current

\* lines 161-182: the field values after applySuggestions(suggestions)
applySuggestions(fs, tg, suggestions) ==
    [f \in FieldNames |->
        CASE f = "sn" -> gentlySetValue(tg[f], fs[f], suggestions.serial_number)
          [] f = "asset_tag" -> gentlySetValue(tg[f], fs[f], suggestions.asset_tag)
          [] f = "description" ->
                IF tg[f] # "" /\ suggestions.short_description # "" /\ IsBlank(fs[f])
                THEN suggestions.short_description
                ELSE fs[f]
          [] f = "subcategory" -> gentlySetValue(tg[f], fs[f], suggestions.subcategory)
          [] f = "cod_destiny" ->
                IF tg[f] # "" /\ suggestions.cod_destiny # ""
                THEN gentlySetValue(tg[f], fs[f], suggestions.cod_destiny)
                ELSE fs[f]]

\* lines 199-200: one "photos" part per entry, in store order
FormData(store) == [i \in 1..Len(store) |-> store[i].file]

\* window.setTimeout returns a handle no pending timer and no variable holds
NewTimerHandle ==
    CHOOSE h \in 1..(Cardinality(timers) + 2) :
        /\ h \notin timers \cup {analysisTimeout}
        /\ \A k \in 1..(h - 1) : k \in timers \cup {analysisTimeout}

----
\* Fragments of handlers

\* history only: which handler ran, on which session value, and whether it
\* changed the store
Track(op, mutated) ==
    /\ last' = [op |-> op, session |-> sessionInput]
    /\ mutationMark' = IF mutated THEN nextReq ELSE mutationMark

\* mutant: the tone class is not applied
showStatusNoTone(message, tone) ==
    /\ statusText' = IF IsBlank(message) THEN DefaultStatus ELSE message
    /\ statusTone' = ""

\* lines 40-48
showStatus(message, tone) ==
    /\ statusText' = IF IsBlank(message) THEN DefaultStatus ELSE message
    /\ statusTone' = tone

\* mutant: the session field is left as it is
clearSessionSkipped == UNCHANGED sessionInput

\* lines 62-64
clearSession == sessionInput' = 0

\* mutant: the pending timer is not cleared before the new one is set
queueAnalysisNoCancel ==
    /\ timers' = timers \cup {NewTimerHandle}
    /\ analysisTimeout' = NewTimerHandle

\* mutant: no timer is set
queueAnalysisDropped == UNCHANGED timerVars

\* lines 236-241
queueAnalysis ==
    /\ timers' = (timers \ {analysisTimeout}) \cup {NewTimerHandle}
    /\ analysisTimeout' = NewTimerHandle

\* mutant: the pending timer is left alone
cancelTimerKeeps == UNCHANGED timerVars

\* mutant: the variable is nulled without clearTimeout
cancelTimerForgets ==
    /\ analysisTimeout' = 0
    /\ UNCHANGED timers

\* lines 107-110, 254-257, 281-284
cancelTimer ==
    IF analysisTimeout # 0
    THEN /\ timers' = timers \ {analysisTimeout}
         /\ analysisTimeout' = 0
    ELSE UNCHANGED timerVars

\* mutant: the store is emptied without revoking its previews
revokeNothing == UNCHANGED <<liveUrls, revokedTwice>>

\* lines 32-38
revokeAllPreviews ==
    /\ liveUrls' = liveUrls \ StoreUrls(selectedFiles)
    /\ revokedTwice' = (revokedTwice \/ ~(StoreUrls(selectedFiles) \subseteq liveUrls))

----
Init ==
    /\ selectedFiles = <<>>
    /\ nextId = 1
    /\ liveUrls = {}
    /\ revokedTwice = FALSE
    /\ sessionInput = 0
    /\ fileInputFiles = <<>>
    /\ strip = <<>>
    /\ clearHidden = TRUE
    /\ statusText = DefaultStatus
    /\ statusTone = ""
    /\ analysisTimeout = 0
    /\ timers = {}
    /\ analysisController = 0
    /\ analyzing = FALSE
    /\ requests = {}
    /\ nextReq = 1
    /\ microtasks = <<>>
    /\ fields = [f \in FieldNames |-> ""]
    /\ tags = [f \in FieldNames |->
                 IF f \in {"subcategory", "cod_destiny"} THEN "SELECT" ELSE "INPUT"]
    /\ last = [op |-> "load", session |-> 0]
    /\ mutationMark = 1

\* mutant: a rejected add also invalidates the session
rejectAddClearsSession(message) ==
    /\ showStatus(message, "error")
    /\ Track("addRejected", FALSE)
    /\ clearSession
    /\ UNCHANGED <<storeVars, timerVars, requestVars, formVars>>

\* lines 119-129: an add over a limit only reports it
rejectAdd(message) ==
    /\ showStatus(message, "error")
    /\ Track("addRejected", FALSE)
    /\ UNCHANGED <<storeVars, sessionInput, timerVars, requestVars, formVars>>

\* lines 115-144 (called by the change listener, lines 249-251)
handleFiles(incoming, idCap) ==
    /\ microtasks = <<>>
    /\ IF Len(incoming) = 0
       THEN /\ Track("addNothing", FALSE)
            /\ UNCHANGED <<storeVars, sessionInput, statusVars, timerVars, requestVars, formVars>>
       ELSE IF Len(selectedFiles) + Len(incoming) > MAX_FILES
       THEN rejectAdd(MsgCountLimit)
       ELSE IF totalBytes(selectedFiles) + SumSizes(incoming) > MAX_TOTAL_BYTES
       THEN rejectAdd(MsgSizeLimit)
       ELSE /\ Track("add", TRUE)
            /\ nextId + Len(incoming) - 1 <= idCap
            /\ selectedFiles' = selectedFiles \o NewEntries(incoming, nextId)
            /\ nextId' = nextId + Len(incoming)
            /\ liveUrls' = liveUrls \cup StoreUrls(NewEntries(incoming, nextId))
            /\ clearSession
            /\ fileInputFiles' = SyncedFiles(selectedFiles', fileInputFiles)
            /\ strip' = RenderedStrip(selectedFiles')
            /\ clearHidden' = ClearButtonHidden(selectedFiles')
            /\ queueAnalysis
            /\ UNCHANGED <<revokedTwice, statusVars, requestVars, formVars>>

\* lines 93-113 (called by a thumbnail's Remove button, lines 82-84)
removeFile(id) ==
    /\ microtasks = <<>>
    /\ IF FindIndex(selectedFiles, id) = 0
       THEN /\ Track("removeAbsent", FALSE)
            /\ UNCHANGED <<storeVars, sessionInput, statusVars, timerVars, requestVars, formVars>>
       ELSE LET index == FindIndex(selectedFiles, id)
                removed == selectedFiles[index]
            IN /\ Track("remove", TRUE)
               /\ selectedFiles' = Splice(selectedFiles, index)
               /\ liveUrls' = liveUrls \ {removed.previewUrl}
               /\ revokedTwice' = (revokedTwice \/ removed.previewUrl \notin liveUrls)
               /\ clearSession
               /\ fileInputFiles' = SyncedFiles(selectedFiles', fileInputFiles)
               /\ strip' = RenderedStrip(selectedFiles')
               /\ clearHidden' = ClearButtonHidden(selectedFiles')
               /\ IF Len(selectedFiles') > 0
                  THEN queueAnalysis /\ UNCHANGED statusVars
                  ELSE cancelTimer /\ showStatus(DefaultStatus, "")
               /\ UNCHANGED <<nextId, requestVars, formVars>>

\* lines 253-265: the clear button's click listener
clearClick ==
    /\ microtasks = <<>>
    /\ ~clearHidden
    /\ Track("clear", TRUE)
    /\ cancelTimer
    /\ revokeAllPreviews
    /\ selectedFiles' = <<>>
    /\ clearSession
    /\ fileInputFiles' = SyncedFiles(selectedFiles', fileInputFiles)
    /\ strip' = RenderedStrip(selectedFiles')
    /\ clearHidden' = ClearButtonHidden(selectedFiles')
    /\ showStatus(MsgCleared, "info")
    /\ UNCHANGED <<nextId, requestVars, formVars>>

\* lines 280-291: the form's reset listener
formReset ==
    /\ microtasks = <<>>
    /\ Track("reset", TRUE)
    /\ cancelTimer
    /\ revokeAllPreviews
    /\ selectedFiles' = <<>>
    /\ clearSession
    /\ showStatus(DefaultStatus, "")
    /\ clearHidden' = ClearButtonHidden(selectedFiles')
    /\ strip' = <<>>
    /\ UNCHANGED <<nextId, fileInputFiles, requestVars, formVars>>

\* lines 267-278: the form's submit listener
formSubmit ==
    /\ microtasks = <<>>
    /\ Track("submit", FALSE)
    /\ fileInputFiles' = IF sessionInput # 0
                         THEN <<>>
                         ELSE SyncedFiles(selectedFiles, fileInputFiles)
    /\ UNCHANGED <<selectedFiles, nextId, liveUrls, revokedTwice, strip, clearHidden,
                   sessionInput, statusVars, timerVars, requestVars, formVars>>

\* lines 243-247: the trigger's click listener opens the file picker unless a
\* request is marked in flight
triggerClick ==
    /\ microtasks = <<>>
    /\ Track(IF analyzing THEN "triggerIgnored" ELSE "pickerOpened", FALSE)
    /\ UNCHANGED <<storeVars, sessionInput, statusVars, timerVars, requestVars, formVars>>

\* lines 229-232
finally ==
    /\ analyzing' = FALSE
    /\ analysisController' = 0

\* lines 192-194: abort() on the controller marks its request, if still suspended
Aborted(reqs, controller) ==
    {IF r.id = controller THEN [r EXCEPT !.aborted = TRUE] ELSE r : r \in reqs}

\* lines 184-211: runAnalysis up to its first await; `pending` are the timers
\* still pending when it is called
runAnalysis(pending, reqCap) ==
    IF Len(selectedFiles) = 0
    THEN /\ timers' = pending
         /\ Track("fireEmpty", FALSE)
         /\ UNCHANGED <<storeVars, sessionInput, statusVars, analysisTimeout, requestVars, formVars>>
    ELSE /\ nextReq <= reqCap
         /\ Track("send", FALSE)
         /\ timers' = pending \ {analysisTimeout}
         /\ analysisTimeout' = 0
         /\ requests' = Aborted(requests, analysisController) \cup
                {[id |-> nextReq, payload |-> FormData(selectedFiles),
                  phase |-> "fetch", aborted |-> FALSE]}
         /\ microtasks' =
                IF \E r \in requests : r.id = analysisController /\ r.phase = "fetch"
                THEN <<analysisController>> ELSE <<>>
         /\ analysisController' = nextReq
         /\ analyzing' = TRUE
         /\ nextReq' = nextReq + 1
         /\ showStatus(MsgAnalyzing, "progress")
         /\ UNCHANGED <<storeVars, sessionInput, formVars>>

\* line 240: the timer t fires and calls runAnalysis
timerFire(t, reqCap) ==
    /\ microtasks = <<>>
    /\ t \in timers
    /\ runAnalysis(timers \ {t}, reqCap)

\* line 203: fetch() fulfils; the request goes on to await response.json()
fetchResolve(r) ==
    /\ microtasks = <<>>
    /\ r \in requests /\ r.phase = "fetch" /\ ~r.aborted
    /\ requests' = (requests \ {r}) \cup {[r EXCEPT !.phase = "body"]}
    /\ Track("headers", FALSE)
    /\ UNCHANGED <<storeVars, sessionInput, statusVars, timerVars, analysisController,
                   analyzing, nextReq, microtasks, formVars>>

\* mutant: the catch block returns for every error as it does for AbortError
fetchRejectSilent(r) ==
    /\ microtasks = <<>>
    /\ r \in requests /\ r.phase = "fetch" /\ ~r.aborted
    /\ requests' = requests \ {r}
    /\ Track("networkError", FALSE)
    /\ finally
    /\ UNCHANGED <<storeVars, sessionInput, statusVars, timerVars, nextReq, microtasks, formVars>>

\* lines 203, 222-232: fetch() rejects with a network error
fetchReject(r) ==
    /\ microtasks = <<>>
    /\ r \in requests /\ r.phase = "fetch" /\ ~r.aborted
    /\ requests' = requests \ {r}
    /\ Track("networkError", FALSE)
    /\ clearSession
    /\ showStatus(MsgNetwork, "error")
    /\ finally
    /\ UNCHANGED <<storeVars, timerVars, nextReq, microtasks, formVars>>

\* lines 203, 222-225, 229-232: fetch() rejected with AbortError by abort()
fetchAbort(r) ==
    /\ microtasks = <<r.id>>
    /\ r \in requests /\ r.phase = "fetch" /\ r.aborted
    /\ requests' = requests \ {r}
    /\ Track("abortError", FALSE)
    /\ microtasks' = <<>>
    /\ finally
    /\ UNCHANGED <<storeVars, sessionInput, statusVars, timerVars, nextReq, formVars>>

NoSuggestions ==
    [serial_number |-> "", asset_tag |-> "", short_description |-> "",
     subcategory |-> "", cod_destiny |-> ""]

\* line 212: what .catch(() => ({})) yields for a body that cannot be read
EmptyPayload ==
    [status |-> "", session |-> 0, suggestions |-> NoSuggestions, message |-> ""]

\* lines 212-221, 229-232: response.json() settles; httpOk is response.ok
bodySettle(r, httpOk, payload) ==
    /\ microtasks = <<>>
    /\ r \in requests /\ r.phase = "body"
    /\ r.aborted => payload = EmptyPayload
    /\ requests' = requests \ {r}
    /\ IF ~httpOk \/ payload.status # "ok"
       THEN /\ Track("failure", FALSE)
            /\ clearSession
            /\ showStatus(IF payload.message # "" THEN payload.message ELSE MsgFailed, "error")
            /\ UNCHANGED formVars
       ELSE /\ Track("success", FALSE)
            /\ sessionInput' = payload.session
            /\ fields' = applySuggestions(fields, tags, payload.suggestions)
            /\ showStatus(MsgReady, "success")
            /\ UNCHANGED tags
    /\ finally
    /\ UNCHANGED <<storeVars, timerVars, nextReq, microtasks>>

----
\* Inputs

SpecBatches == {<<>>, <<12 * MiB>>, <<13 * MiB>>}

SpecSuggestions == {NoSuggestions}

\* the bodies the server may answer request r with
Payloads(r, suggestionSets) ==
    {EmptyPayload, [EmptyPayload EXCEPT !.status = "error", !.message = "Quota exceeded"]}
    \cup {[status |-> "ok", session |-> sess, suggestions |-> sug, message |-> ""] :
            sess \in {0, r.id}, sug \in suggestionSets}

Next ==
    \/ \E incoming \in SpecBatches : handleFiles(incoming, MaxIds)
    \/ \E id \in 1..MaxIds : removeFile(id)
    \/ clearClick
    \/ formReset
    \/ formSubmit
    \/ triggerClick
    \/ \E t \in timers : timerFire(t, MaxRequests)
    \/ \E r \in requests : fetchResolve(r)
    \/ \E r \in requests : fetchReject(r)
    \/ \E r \in requests : fetchAbort(r)
    \/ \E r \in requests, httpOk \in BOOLEAN :
            \E payload \in Payloads(r, SpecSuggestions) : bodySettle(r, httpOk, payload)

Spec == Init /\ [][Next]_vars

\* The same handlers, driven with batches that fill the store to MAX_FILES
LimBatches ==
    {<<5 * MiB, 5 * MiB, 5 * MiB, 5 * MiB, 5 * MiB>>, <<1, 0, 0, 0, 0>>, <<0, 0, 0, 0, 0, 0>>}

LimRemovable == {1, 10}

NextLimits ==
    \/ \E incoming \in LimBatches : handleFiles(incoming, LimMaxIds)
    \/ \E id \in LimRemovable : removeFile(id)
    \/ clearClick
    \/ formReset
    \/ formSubmit
    \/ triggerClick
    \/ \E t \in timers : timerFire(t, LimMaxRequests)
    \/ \E r \in requests : fetchResolve(r)
    \/ \E r \in requests : fetchReject(r)
    \/ \E r \in requests : fetchAbort(r)
    \/ \E r \in requests, httpOk \in BOOLEAN :
            \E payload \in Payloads(r, SpecSuggestions) : bodySettle(r, httpOk, payload)

SpecLimits == Init /\ [][NextLimits]_vars

\* The same handlers on a form whose fields are of either kind, missing or
\* already filled when the page loads, with a server that suggests values
FormLayouts ==
    {[f \in FieldNames |-> IF f \in {"subcategory", "cod_destiny"} THEN "SELECT" ELSE "INPUT"],
     [f \in FieldNames |-> IF f \in {"asset_tag", "cod_destiny"} THEN ""
                           ELSE IF f = "subcategory" THEN "SELECT" ELSE "INPUT"]}

FormPrefills ==
    {[f \in FieldNames |-> IF f \in {"sn", "description"} THEN " " ELSE ""],
     [f \in FieldNames |-> "A"]}

FormBatches == {<<1>>}

FormSuggestions ==
    {NoSuggestions,
     [NoSuggestions EXCEPT !.serial_number = "SN1"],
     [serial_number |-> "B", asset_tag |-> "B", short_description |-> "B",
      subcategory |-> "Z", cod_destiny |-> "B"]}

InitForm ==
    /\ selectedFiles = <<>>
    /\ nextId = 1
    /\ liveUrls = {}
    /\ revokedTwice = FALSE
    /\ sessionInput = 0
    /\ fileInputFiles = <<>>
    /\ strip = <<>>
    /\ clearHidden = TRUE
    /\ statusText = DefaultStatus
    /\ statusTone = ""
    /\ analysisTimeout = 0
    /\ timers = {}
    /\ analysisController = 0
    /\ analyzing = FALSE
    /\ requests = {}
    /\ nextReq = 1
    /\ microtasks = <<>>
    /\ fields \in FormPrefills
    /\ tags \in FormLayouts
    /\ last = [op |-> "load", session |-> 0]
    /\ mutationMark = 1

NextForm ==
    \/ \E incoming \in FormBatches : handleFiles(incoming, FormMaxIds)
    \/ \E id \in 1..FormMaxIds : removeFile(id)
    \/ clearClick
    \/ formReset
    \/ formSubmit
    \/ triggerClick
    \/ \E t \in timers : timerFire(t, FormMaxRequests)
    \/ \E r \in requests : fetchResolve(r)
    \/ \E r \in requests : fetchReject(r)
    \/ \E r \in requests : fetchAbort(r)
    \/ \E r \in requests, httpOk \in BOOLEAN :
            \E payload \in Payloads(r, FormSuggestions) : bodySettle(r, httpOk, payload)

SpecForm == InitForm /\ [][NextForm]_vars

\* The same handlers with the scheduling the page relies on: a pending timer
\* fires (line 237), a microtask runs, and a request that was sent settles.
\* Every request follows an accepted add or a remove that leaves a photo, so
\* LiveMaxIds ids allow no more than 2 * LiveMaxIds - 1 requests.
LiveBatches == {<<1>>}

LivePayloads(r) ==
    {EmptyPayload,
     [status |-> "ok", session |-> r.id, suggestions |-> NoSuggestions, message |-> ""]}

NextLive ==
    \/ \E incoming \in LiveBatches : handleFiles(incoming, LiveMaxIds)
    \/ \E id \in 1..LiveMaxIds : removeFile(id)
    \/ clearClick
    \/ formReset
    \/ formSubmit
    \/ triggerClick
    \/ \E t \in timers : timerFire(t, 2 * LiveMaxIds - 1)
    \/ \E r \in requests : fetchResolve(r)
    \/ \E r \in requests : fetchReject(r)
    \/ \E r \in requests : fetchAbort(r)
    \/ \E r \in requests, httpOk \in BOOLEAN :
            \E payload \in LivePayloads(r) : bodySettle(r, httpOk, payload)

Fairness ==
    /\ WF_vars(\E t \in timers : timerFire(t, 2 * LiveMaxIds - 1))
    /\ WF_vars(\E r \in requests : fetchAbort(r))
    /\ WF_vars(\E r \in requests : fetchResolve(r) \/ fetchReject(r))
    /\ WF_vars(\E r \in requests, httpOk \in BOOLEAN :
                \E payload \in LivePayloads(r) : bodySettle(r, httpOk, payload))

SpecLive == Init /\ [][NextLive]_vars /\ Fairness

----
\* Properties

InFlightIds == {r.id : r \in requests}
LiveRequests == {r \in requests : ~r.aborted}

\* C1: when runAnalysis starts a request while earlier ones have not settled,
\* every earlier one is aborted, and the step in which a superseded request
\* settles changes neither the session field nor the status text or tone.
C1_SupersededSettlesSilently ==
    [][/\ nextReq' = nextReq + 1 => \A r \in requests' : r.id < nextReq => r.aborted
       /\ \A r \in requests :
            (r.id + 1 < nextReq /\ r.id \notin {q.id : q \in requests'})
                => /\ sessionInput' = sessionInput
                   /\ statusText' = statusText
                   /\ statusTone' = statusTone]_vars

\* C2: a non-empty session field was set by the analysis of a request sent
\* after the latest mutation of the store, so its payload is the current
\* selection.
C2_TokenBoundToCurrentSelection ==
    sessionInput # 0 => sessionInput >= mutationMark

\* C3: at most one request that has not been aborted is outstanding.
C3_AtMostOneLiveRequest ==
    Cardinality(LiveRequests) <= 1

\* C4: right after a handler that changed the store (an accepted add, a remove
\* of a present id, clear-all) the session field is empty.
C4_MutationUnbindsToken ==
    last.op \in {"add", "remove", "clear"} => sessionInput = 0

C4_Witness ==
    last.op \in {"add", "remove", "clear"} /\ last.session # 0 /\ sessionInput = 0

\* C5: at most one timer is pending; queueing analysis while a timer is
\* pending cancels that timer, leaves exactly the new one pending and sends
\* nothing; a request is sent only by the one pending timer firing.
C5_OneTimerOneRequest ==
    [][/\ Cardinality(timers') <= 1
       /\ (last'.op \in {"add", "remove"} /\ Len(selectedFiles') > 0)
            => /\ timers \cap timers' = {}
               /\ timers' = {analysisTimeout'}
               /\ nextReq' = nextReq
       /\ nextReq' # nextReq
            => /\ nextReq' = nextReq + 1
               /\ Cardinality(timers) = 1
               /\ timers' = {}]_vars

C5_Witness ==
    /\ last.op = "send"
    /\ mutationMark = nextReq - 1
    /\ Len(selectedFiles) = 2
    /\ nextReq = 2
    /\ timers = {}

\* C6: the store never holds more than 10 photos or more than 25 MiB; an add
\* is accepted exactly when the count and the bytes it would lead to are
\* within those limits, and an accepted add appends every incoming file.
C6_LimitsOnProspectiveState ==
    [][/\ Len(selectedFiles') <= 10
       /\ totalBytes(selectedFiles') <= 26214400
       /\ \A incoming \in LimBatches :
            handleFiles(incoming, LimMaxIds) =>
                IF /\ Len(selectedFiles) + Len(incoming) <= 10
                   /\ totalBytes(selectedFiles) + SumSizes(incoming) <= 26214400
                THEN /\ Len(selectedFiles') = Len(selectedFiles) + Len(incoming)
                     /\ SubSeq(selectedFiles', 1, Len(selectedFiles)) = selectedFiles
                     /\ \A i \in 1..Len(incoming) :
                            selectedFiles'[Len(selectedFiles) + i].file.size = incoming[i]
                ELSE selectedFiles' = selectedFiles]_vars

C6_Witness ==
    last.op = "add" /\ Len(selectedFiles) = 10

\* C7: an add rejected for the count or the size limit changes only the status,
\* which becomes the matching limit message with tone error.
C7_RejectedAddOnlySetsStatus ==
    [][\A incoming \in LimBatches :
        (/\ handleFiles(incoming, LimMaxIds)
         /\ \/ Len(selectedFiles) + Len(incoming) > 10
            \/ totalBytes(selectedFiles) + SumSizes(incoming) > 26214400)
        => /\ UNCHANGED <<selectedFiles, nextId, liveUrls, revokedTwice, sessionInput,
                          fileInputFiles, strip, clearHidden, analysisTimeout, timers,
                          analysisController, analyzing, requests, nextReq, fields>>
           /\ statusTone' = "error"
           /\ statusText' = IF Len(selectedFiles) + Len(incoming) > 10
                             THEN MsgCountLimit ELSE MsgSizeLimit]_vars

C7_Witness ==
    /\ last.op = "addRejected"
    /\ statusText = MsgSizeLimit
    /\ timers # {}
    /\ requests # {}
    /\ last.session # 0

\* C8: the object URLs created and not revoked are exactly the preview URLs of
\* the entries in the store, one per entry, and none was revoked twice.
C8_HandlesMatchStore ==
    /\ liveUrls = StoreUrls(selectedFiles)
    /\ Cardinality(liveUrls) = Len(selectedFiles)
    /\ ~revokedTwice

C8_Witness ==
    last.op = "remove" /\ Len(selectedFiles) = 1 /\ nextId = 3

\* C9: clear-all while a request is in flight cancels it, releases every
\* preview URL, empties the store and shows the cleared message; the
\* settlement of a request sent before the clear changes neither the session
\* field nor the status.
C9_ClearCancelsInFlight ==
    [][/\ (last'.op = "clear" /\ requests # {})
            => /\ LiveRequests' = {}
               /\ liveUrls' = {}
               /\ selectedFiles' = <<>>
               /\ statusText' = MsgCleared
               /\ statusTone' = "info"
       /\ \A r \in requests :
            (/\ statusText = MsgCleared
             /\ r.id < mutationMark
             /\ r.id \notin {q.id : q \in requests'})
            => /\ sessionInput' = sessionInput
               /\ statusText' = statusText
               /\ statusTone' = statusTone]_vars

\* C10: after the last photo is removed the store is empty, no timer is
\* pending, the status is the default text without tone and the session
\* field is empty.
C10_RemoveLastResets ==
    (last.op = "remove" /\ Len(selectedFiles) = 0)
        => /\ timers = {}
           /\ analysisTimeout = 0
           /\ statusText = DefaultStatus
           /\ statusTone = ""
           /\ sessionInput = 0

C10_Witness ==
    last.op = "remove" /\ Len(selectedFiles) = 0 /\ last.session # 0

\* lines 168-181: the member of the suggestions applySuggestions reads for a field
SuggestionFor(suggestions, f) ==
    CASE f = "sn" -> suggestions.serial_number
      [] f = "asset_tag" -> suggestions.asset_tag
      [] f = "description" -> suggestions.short_description
      [] f = "subcategory" -> suggestions.subcategory
      [] f = "cod_destiny" -> suggestions.cod_destiny

\* C11: when a settlement applies suggestions, a field of the form whose value
\* is not blank keeps its value, whether it is a text input or a select, and a
\* field whose suggestion is absent or null keeps its value.
C11_SuggestionsNeverOverwrite ==
    [][\A r \in requests, suggestions \in FormSuggestions :
        \A payload \in Payloads(r, {suggestions}) :
            bodySettle(r, TRUE, payload) =>
                \A f \in FieldNames :
                    (~IsBlank(fields[f]) \/ SuggestionFor(payload.suggestions, f) = "")
                        => fields'[f] = fields[f]]_vars

\* C12: right after a submit with a non-empty store, either the session field
\* is non-empty and the file input is empty, or the session field is empty and
\* the file input holds the store's files in store order; and a session issued
\* for a request sent before the latest mutation of the store is not submitted:
\* the files are.
C12_SubmissionModesExclusive ==
    (last.op = "submit" /\ Len(selectedFiles) > 0)
        => /\ \/ sessionInput # 0 /\ fileInputFiles = <<>>
              \/ sessionInput = 0 /\ fileInputFiles = FormData(selectedFiles)
           /\ sessionInput < mutationMark
                => sessionInput = 0 /\ fileInputFiles = FormData(selectedFiles)

\* C13: when the newest request, not canceled, settles with an ok HTTP status
\* and a body whose status is "ok", the session field becomes the returned
\* session, a blank text field takes its suggested value (a blank serial
\* field the suggested serial number), the status becomes the review prompt
\* with tone success, and the store and its preview handles do not change.
C13_SuccessBindsAndSuggests ==
    [][last'.op = "success" =>
        \A r \in requests :
            (r.id = nextReq - 1 /\ ~r.aborted) =>
                \A payload \in Payloads(r, FormSuggestions) :
                    (payload.status = "ok" /\ bodySettle(r, TRUE, payload))
                    => /\ sessionInput' = payload.session
                       /\ \A f \in {"sn", "asset_tag", "description"} :
                            (/\ tags[f] = "INPUT"
                             /\ IsBlank(fields[f])
                             /\ SuggestionFor(payload.suggestions, f) # "")
                            => fields'[f] = SuggestionFor(payload.suggestions, f)
                       /\ statusText' = MsgReady
                       /\ statusTone' = "success"
                       /\ selectedFiles' = selectedFiles
                       /\ liveUrls' = liveUrls
                       /\ strip' = strip]_vars

C13_Witness ==
    /\ last.op = "success"
    /\ sessionInput = nextReq - 1
    /\ fields.sn = "SN1"
    /\ statusTone = "success"
    /\ Len(selectedFiles) > 0

\* C14: when the newest request, not canceled, settles as a failure (HTTP
\* status not ok, a body whose status is not "ok", a body that cannot be
\* read, or a network error), the session field is empty and the status tone
\* is error afterwards, no form field changes, and the store and its preview
\* handles do not change.
C14_FailureClearsToken ==
    [][\A r \in requests :
        (/\ last'.op \in {"failure", "networkError"}
         /\ r.id = nextReq - 1
         /\ ~r.aborted
         /\ \/ fetchReject(r)
            \/ \E httpOk \in BOOLEAN :
                 \E payload \in Payloads(r, FormSuggestions) :
                    /\ ~httpOk \/ payload.status # "ok"
                    /\ bodySettle(r, httpOk, payload))
        => /\ sessionInput' = 0
           /\ statusTone' = "error"
           /\ fields' = fields
           /\ selectedFiles' = selectedFiles
           /\ liveUrls' = liveUrls
           /\ strip' = strip]_vars

C14_Witness ==
    /\ last.op \in {"failure", "networkError"}
    /\ last.session # 0
    /\ sessionInput = 0
    /\ statusTone = "error"
    /\ Len(selectedFiles) > 0

\* C15: the step in which the newest request, not canceled, settles clears
\* analyzing and analysisController; the step in which a canceled request
\* settles while the newest request is still outstanding and not canceled
\* leaves analyzing true and analysisController referring to the newest request.
C15_CanceledSettleKeepsMarker ==
    [][\A r \in requests :
        r.id \notin {q.id : q \in requests'}
            => /\ (r.id = nextReq - 1 /\ ~r.aborted)
                    => (~analyzing' /\ analysisController' = 0)
               /\ (r.aborted /\ \E q \in requests' : q.id = nextReq - 1 /\ ~q.aborted)
                    => (analyzing' /\ analysisController' = nextReq - 1)]_vars

\* the handlers that change the store
MutatingOps == {"add", "remove", "clear", "reset"}

\* C16: with timers that fire and requests that settle, a request sent after
\* the latest mutation carries the store as it is, and if from some point on
\* no handler changes the store and the store is not empty, then from some
\* point on a request has been sent after the latest mutation, no request is
\* outstanding and the status tone is success or error, not progress.
C16_EventuallyAnalyzed ==
    /\ [](\A r \in requests : r.id >= mutationMark => r.payload = FormData(selectedFiles))
    /\ (<>[][last'.op \notin MutatingOps]_vars /\ <>[](Len(selectedFiles) > 0))
            => <>[](/\ nextReq > mutationMark
                    /\ requests = {}
                    /\ statusTone \in {"success", "error"})

C16_Witness ==
    /\ last.op \in {"success", "failure", "networkError"}
    /\ Len(selectedFiles) > 0
    /\ mutationMark > 1
    /\ nextReq > mutationMark
    /\ requests = {}
    /\ timers = {}
    /\ statusTone \in {"success", "error"}

\* C17: the request a firing timer sends carries one part per photo of the
\* store as it is in that step, in store order; the store is in insertion
\* order (ids were handed out in increasing order); an accepted add keeps the
\* entries it finds and appends the incoming files in input order; a remove
\* keeps the other entries in their order.
C17_PayloadIsStoreInOrder ==
    [][/\ \A q \in requests' :
            q.id = nextReq
                => /\ Len(q.payload) = Len(selectedFiles)
                   /\ \A i \in 1..Len(selectedFiles) : q.payload[i] = selectedFiles[i].file
       /\ \A i, j \in 1..Len(selectedFiles') :
            i < j => selectedFiles'[i].id < selectedFiles'[j].id
       /\ \A incoming \in LimBatches :
            (handleFiles(incoming, LimMaxIds) /\ last'.op = "add")
                => /\ SubSeq(selectedFiles', 1, Len(selectedFiles)) = selectedFiles
                   /\ [i \in 1..Len(incoming) |->
                            selectedFiles'[Len(selectedFiles) + i].file.size] = incoming
       /\ \A id \in LimRemovable :
            removeFile(id) =>
                LET Others(e) == e.id # id
                IN selectedFiles' = SelectSeq(selectedFiles, Others)]_vars

C17_Witness ==
    /\ last.op = "send"
    /\ Len(selectedFiles) = 9
    /\ selectedFiles[1].id = 2
    /\ \E q \in requests : q.id = nextReq - 1 /\ Len(q.payload) = 9

\* C18: removeFile with an id that is not in the store changes nothing: not
\* the store, the preview handles, the session field, the file input, the
\* strip, the status, the pending timer or the requests in flight, and it
\* sets no timer.
C18_RemoveAbsentIsNoOp ==
    [][\A id \in 1..MaxIds :
        (removeFile(id) /\ id \notin StoreIds(selectedFiles))
            => /\ selectedFiles' = selectedFiles
               /\ liveUrls' = liveUrls
               /\ sessionInput' = sessionInput
               /\ fileInputFiles' = fileInputFiles
               /\ strip' = strip
               /\ clearHidden' = clearHidden
               /\ statusText' = statusText
               /\ statusTone' = statusTone
               /\ analysisTimeout' = analysisTimeout
               /\ timers' = timers
               /\ requests' = requests
               /\ analysisController' = analysisController
               /\ analyzing' = analyzing
               /\ nextReq' = nextReq]_vars

C18_Witness ==
    /\ last.op = "removeAbsent"
    /\ Len(selectedFiles) > 0
    /\ sessionInput # 0
    /\ timers # {}
    /\ requests # {}

\* C19: while a timer is pending the store is not empty, and no request in
\* flight carries an empty payload.
C19_PendingTimerHasPhotos ==
    /\ timers # {} => Len(selectedFiles) > 0
    /\ \A r \in requests : Len(r.payload) > 0

C19_Witness ==
    /\ last.op = "remove"
    /\ Len(selectedFiles) = 1
    /\ timers = {analysisTimeout}
    /\ analysisTimeout # 0
    /\ requests # {}

\* C20: while the status tone is progress, a request that was sent has not
\* settled yet.
C20_ProgressMeansInFlight ==
    statusTone = "progress" => \E r \in requests : ~r.aborted

C20_Witness ==
    /\ statusTone = "progress"
    /\ last.op = "abortError"
    /\ Cardinality(requests) = 1
====
